---- MODULE Spec2Model ----
(***************************************************************************)
(* A model of the brontes MEV Composer (crates/brontes-inspect/src/        *)
(* composer.rs): the Composer future that fans out to N inspector tasks,   *)
(* collects their bundles and resolves them through the MEV_FILTER         *)
(* dependency table.                                                       *)
(*                                                                         *)
(* Spec        : the Composer's life cycle (on_new_tree, the inspector     *)
(*               tasks, poll with the whole of on_orchestra_resolution).   *)
(* FairSpec    : Spec with the fairness of the runtime (tasks run, the     *)
(*               composer keeps being polled).                             *)
(* ResolveSpec : on_orchestra_resolution alone, step by step, on every     *)
(*               raw bundle list of the bounded input sets.                *)
(***************************************************************************)
EXTENDS Integers, Sequences, FiniteSets, TLC

VARIABLES
    inspectors_execution, \* Composer.inspectors_execution: "None" | "Some"
    pre_processing,       \* Composer.pre_processing: "None" | BlockPreprocessing
    is_finished,          \* Composer.is_finished
    tasks,                \* the tasks spawned in the scope of inspectors_execution
    orchestra_data,       \* the Vec handed to on_orchestra_resolution
    header,               \* the MevBlock built by build_mev_header
    sorted_mev,           \* the HashMap<MevType, Vec<bundle>> of the resolution
    filter_idx,           \* position in MEV_FILTER (1-based) of the next entry
    pc,                   \* where the resolution stands
    poll_result,          \* what the last poll returned
    starts,               \* number of on_new_tree calls so far
    ready_count,          \* number of polls that returned Ready so far
    finished_entries,     \* number of times line 256 (is_finished = true) ran
    call,                 \* the function under examination and its arguments
    ret                   \* what that function returned

vars == <<inspectors_execution, pre_processing, is_finished, tasks, orchestra_data,
          header, sorted_mev, filter_idx, pc, poll_result, starts, ready_count,
          finished_entries, call, ret>>

----------------------------------------------------------------------------
(* Bounds of the model *)

\* longest raw bundle list over the whole bundle universe (ResolveSpec)
MaxRaw == 3
\* longest raw bundle list over the Sandwich/Backrun universe (ResolveSpec)
MaxDeep == 5
\* number of on_new_tree calls explored on one Composer (Spec)
MaxStarts == 2

\* the const generic N of Composer<'a, N>, as the tests instantiate it
NumInspectors == 2

----------------------------------------------------------------------------
(* Sequences and multisets *)

Range(s) == {s[i] : i \in DOMAIN s}

SeqsUpTo(S, n) == UNION {[1..k -> S] : k \in 0..n}

RECURSIVE SumSeq(_)
SumSeq(s) == IF s = <<>> THEN 0 ELSE Head(s) + SumSeq(Tail(s))

RECURSIVE ConcatAll(_)
ConcatAll(ss) == IF ss = <<>> THEN <<>> ELSE Head(ss) \o ConcatAll(Tail(ss))

Count(x, s) == Cardinality({i \in DOMAIN s : s[i] = x})

\* the multiset of the elements of a sequence
BagOf(s) == [x \in Range(s) |-> Count(x, s)]

\* every ordering of the elements of a finite set
RECURSIVE PermSeqs(_)
PermSeqs(S) ==
    IF S = {} THEN {<<>>}
    ELSE UNION {{<<x>> \o p : p \in PermSeqs(S \ {x})} : x \in S}

\* every reordering of a sequence
Reorderings(s) == {[i \in DOMAIN s |-> s[f[i]]] : f \in Permutations(DOMAIN s)}

----------------------------------------------------------------------------
(* Bundles: (ClassifiedMev, Box<dyn SpecificMev>) *)

\* the types the table names, and one it does not name
MevType == {"Sandwich", "Backrun", "CexDex", "Jit", "JitSandwich", "Liquidation"}

\* transaction hashes, and the Vec<H256> values of mev_transaction_hashes()
HashVecs == {<<1>>, <<2>>, <<1, 2>>, <<2, 1>>}
DeepHashVecs == {<<1>>, <<2>>, <<3>>}

\* a bundle as an inspector returns it; bribe and priority fee are fixed by
\* the hashes so that different bundles pay different amounts
MkBundle(t, h) ==
    [mev_type |-> t, hashes |-> h, bribe |-> Len(h), priority_fee |-> 10 * h[1],
     parts |-> <<>>]

RawTypes == {"Sandwich", "Backrun", "CexDex", "Jit", "Liquidation"}
Universe == {MkBundle(t, h) : t \in RawTypes, h \in HashVecs}
DeepUniverse == {MkBundle(t, h) : t \in {"Sandwich", "Backrun"}, h \in DeepHashVecs}

RawLists == SeqsUpTo(Universe, MaxRaw) \cup SeqsUpTo(DeepUniverse, MaxDeep)

mev_transaction_hashes(b) == b.hashes
bribe(b) == b.bribe
priority_fee_paid(b) == b.priority_fee

\* compose_sandwich_jit: one new bundle of the parent type made of the two
Compose(parent, a, b) ==
    [mev_type |-> parent, hashes |-> a.hashes \o b.hashes,
     bribe |-> a.bribe + b.bribe, priority_fee |-> a.priority_fee + b.priority_fee,
     parts |-> <<a, b>>]

----------------------------------------------------------------------------
(* The dependency table *)

get_compose_fn(mev_type) ==
    IF mev_type = "JitSandwich" THEN "compose_sandwich_jit" ELSE "None"

MEV_FILTER ==
    << [head |-> "Sandwich", compose_fn |-> get_compose_fn("Sandwich"),
        deps |-> <<"Backrun", "CexDex">>],
       [head |-> "JitSandwich", compose_fn |-> get_compose_fn("JitSandwich"),
        deps |-> <<"Sandwich", "Jit">>] >>

----------------------------------------------------------------------------
(* pre_process and build_mev_header *)

\* a tree is the list of its transaction roots' gas details
ExampleTree ==
    << [gas_used |-> 21000, effective_gas_price |-> 10],
       [gas_used |-> 50000, effective_gas_price |-> 20] >>
Trees == {<<>>, ExampleTree}

\* the BlockPreprocessing of a tree (meta_data and builder_address are opaque
\* values the resolution only copies, and are left out)
PreProcess(tree) ==
    [cumulative_gas_used |-> SumSeq([i \in DOMAIN tree |-> tree[i].gas_used]),
     cumulative_gas_paid |->
        SumSeq([i \in DOMAIN tree |-> tree[i].effective_gas_price * tree[i].gas_used])]

\* the value of `header` before build_mev_header ran
NoHeader ==
    [mev_count |-> -1, cumulative_gas_used |-> -1, cumulative_gas_paid |-> -1,
     total_bribe |-> -1, cumulative_mev_priority_fee_paid |-> -1,
     builder_eth_profit |-> -1]

\* the MevBlock, built from the data handed to on_orchestra_resolution (the
\* floating point USD figures and the copied metadata are left out)
BuildMevHeader(pre, data) ==
    [mev_count |-> Len(data),
     cumulative_gas_used |-> pre.cumulative_gas_used,
     cumulative_gas_paid |-> pre.cumulative_gas_paid,
     total_bribe |-> SumSeq([i \in DOMAIN data |-> bribe(data[i])]),
     cumulative_mev_priority_fee_paid |->
        SumSeq([i \in DOMAIN data |-> priority_fee_paid(data[i])]),
     builder_eth_profit |-> 0 + pre.cumulative_gas_paid]

----------------------------------------------------------------------------
(* The HashMap<MevType, Vec<bundle>>: a function whose domain is the keys *)

EmptyMap == [t \in {} |-> <<>>]

\* a fold that keeps only the bundles of the types MEV_FILTER names
GroupTableTypes(data) ==
    [t \in {data[i].mev_type : i \in DOMAIN data}
            \cap UNION {{MEV_FILTER[e].head} \cup Range(MEV_FILTER[e].deps) :
                           e \in DOMAIN MEV_FILTER} |->
        SelectSeq(data, LAMBDA b : b.mev_type = t)]

\* the fold of on_orchestra_resolution: one group per type, in raw order
GroupByType(data) ==
    [t \in {data[i].mev_type : i \in DOMAIN data} |->
        SelectSeq(data, LAMBDA b : b.mev_type = t)]

\* a push that loses the bundle
PushLost(groups, t, b) == groups

\* a push that puts the bundle in front of its group
PushFront(groups, t, b) ==
    IF t \in DOMAIN groups THEN [groups EXCEPT ![t] = <<b>> \o @]
    ELSE [k \in DOMAIN groups \cup {t} |-> IF k = t THEN <<b>> ELSE groups[k]]

\* entry(t).or_default().push(b)
Push(groups, t, b) ==
    IF t \in DOMAIN groups THEN [groups EXCEPT ![t] = Append(@, b)]
    ELSE [k \in DOMAIN groups \cup {t} |-> IF k = t THEN <<b>> ELSE groups[k]]

\* HashMap::remove(t)
RemoveKey(groups, t) == [k \in DOMAIN groups \ {t} |-> groups[k]]

\* a removal that leaves the bundle in its group
RemoveNothing(s, index) == s

\* Vec::remove(index), index counted from 0; the caller checks the range
RemoveAt(s, index) == SubSeq(s, 1, index) \o SubSeq(s, index + 2, Len(s))

\* into_values().flatten(): the groups one after the other, in the order the
\* HashMap happens to iterate
FlattenValues(groups, order) == ConcatAll([i \in DOMAIN order |-> groups[order[i]]])

----------------------------------------------------------------------------
(* replace_dep_filter *)

\* lines 282-296: the index recorded for a dependency bundle at position i
\* when `adjustment` bundles of its type were recorded before it. usize
\* arithmetic: a negative value stands for the underflow of i - adjustment,
\* which panics at once (debug) or wraps to an index no Vec has (release)
ExactIndex(i, adjustment) == i - adjustment
OverlapIndex(i, adjustment) == i + adjustment

\* line 282 and lines 288-291
HashesEqual(dep_hashes, hashes) == dep_hashes = hashes
HashesOverlap(dep_hashes, hashes) ==
    \E k \in DOMAIN dep_hashes : dep_hashes[k] \in Range(hashes)

\* lines 279-297: one dependency group scanned for one head bundle;
\* acc = [count: remove_count, data: the indexes collected so far]
RECURSIVE ScanDepMev(_, _, _, _, _)
ScanDepMev(hashes, dep, dep_mev, i, acc) ==
    IF i >= Len(dep_mev) THEN acc
    ELSE LET dep_hashes == mev_transaction_hashes(dep_mev[i + 1])
             adjustment == acc.count[dep]
             next ==
                IF HashesEqual(dep_hashes, hashes)
                THEN [count |-> [acc.count EXCEPT ![dep] = @ + 1],
                      data |-> Append(acc.data,
                                  [mev_type |-> dep, index |-> ExactIndex(i, adjustment)])]
                ELSE IF HashesOverlap(dep_hashes, hashes)
                THEN [count |-> [acc.count EXCEPT ![dep] = @ + 1],
                      data |-> Append(acc.data,
                                  [mev_type |-> dep, index |-> OverlapIndex(i, adjustment)])]
                ELSE acc
         IN ScanDepMev(hashes, dep, dep_mev, i + 1, next)

\* lines 277-298: every dependency type, in the declared order, for one head
RECURSIVE ScanDeps(_, _, _, _, _)
ScanDeps(hashes, deps, k, groups, acc) ==
    IF k > Len(deps) THEN acc
    ELSE ScanDeps(hashes, deps, k + 1, groups,
            IF deps[k] \in DOMAIN groups
            THEN ScanDepMev(hashes, deps[k], groups[deps[k]], 0, acc)
            ELSE acc)

\* lines 272-302: every head bundle in group order; remove_count is shared
RECURSIVE ScanHeads(_, _, _, _, _)
ScanHeads(head_mev, j, deps, groups, acc) ==
    IF j > Len(head_mev) THEN acc
    ELSE ScanHeads(head_mev, j + 1, deps, groups,
            ScanDeps(mev_transaction_hashes(head_mev[j]), deps, 1, groups, acc))

FlattendIndexes(head_mev, deps, groups) ==
    ScanHeads(head_mev, 1, deps, groups,
              [count |-> [t \in MevType |-> 0], data |-> <<>>]).data

\* lines 304-306: the removals, one after the other; Vec::remove panics on
\* an index that is not below the length
RECURSIVE ApplyRemovals(_, _, _)
ApplyRemovals(groups, data, k) ==
    IF k > Len(data) THEN [panicked |-> FALSE, groups |-> groups]
    ELSE LET r == data[k]
         IN IF r.index < 0 \/ r.index >= Len(groups[r.mev_type])
            THEN [panicked |-> TRUE, groups |-> groups]
            ELSE ApplyRemovals([groups EXCEPT ![r.mev_type] = RemoveAt(@, r.index)],
                               data, k + 1)

ReplaceDepFilter(head_mev_type, deps, groups) ==
    IF head_mev_type \notin DOMAIN groups
    THEN [panicked |-> FALSE, groups |-> groups]
    ELSE ApplyRemovals(groups,
                       FlattendIndexes(groups[head_mev_type], deps, groups), 1)

----------------------------------------------------------------------------
(* compose_dep_filter *)

\* line 337
ComposeMatch(o_addrs, addresses) ==
    o_addrs = addresses \/ \E k \in DOMAIN addresses : addresses[k] \in Range(o_addrs)

\* a search that returns the last matching bundle instead of the first
FindLast(groups, t, addresses) ==
    IF t \notin DOMAIN groups THEN 0
    ELSE LET found == {i \in DOMAIN groups[t] :
                          ComposeMatch(mev_transaction_hashes(groups[t][i]), addresses)}
         IN IF found = {} THEN 0
            ELSE CHOOSE i \in found : \A j \in found : i >= j

\* a search that accepts only a bundle with the very same hash list
FindEqualOnly(groups, t, addresses) ==
    IF t \notin DOMAIN groups THEN 0
    ELSE LET found == {i \in DOMAIN groups[t] :
                          mev_transaction_hashes(groups[t][i]) = addresses}
         IN IF found = {} THEN 0
            ELSE CHOOSE i \in found : \A j \in found : i <= j

\* lines 334-339: the position (from 1) of the first bundle of the second
\* type that matches, 0 when there is none
FindFirst(groups, t, addresses) ==
    IF t \notin DOMAIN groups THEN 0
    ELSE LET found == {i \in DOMAIN groups[t] :
                          ComposeMatch(mev_transaction_hashes(groups[t][i]), addresses)}
         IN IF found = {} THEN 0
            ELSE CHOOSE i \in found : \A j \in found : i <= j

\* lines 331-362: the bundles of the first type, in group order
RECURSIVE ComposeLoop(_, _, _, _, _)
ComposeLoop(parent_mev_type, composable_types, zero_txes, k, groups) ==
    IF k > Len(zero_txes) THEN groups
    ELSE LET b == zero_txes[k]
             index == FindFirst(groups, composable_types[2], mev_transaction_hashes(b))
         IN ComposeLoop(parent_mev_type, composable_types, zero_txes, k + 1,
               IF index # 0
               THEN Push([groups EXCEPT ![composable_types[2]] = RemoveAt(@, index - 1)],
                         parent_mev_type,
                         Compose(parent_mev_type, b, groups[composable_types[2]][index]))
               ELSE Push(groups, composable_types[1], b))

ComposeDepFilter(parent_mev_type, composable_types, groups) ==
    IF Len(composable_types) # 2
    THEN [panicked |-> TRUE, groups |-> groups]
    ELSE IF composable_types[1] \notin DOMAIN groups
    THEN [panicked |-> FALSE, groups |-> groups]
    ELSE [panicked |-> FALSE,
          groups |-> ComposeLoop(parent_mev_type, composable_types,
                                 groups[composable_types[1]], 1,
                                 RemoveKey(groups, composable_types[1]))]

----------------------------------------------------------------------------
(* on_orchestra_resolution *)

\* lines 243-254: one entry of MEV_FILTER
ApplyFilterEntry(entry, groups) ==
    IF entry.compose_fn # "None"
    THEN ComposeDepFilter(entry.head, entry.deps, groups)
    ELSE ReplaceDepFilter(entry.head, entry.deps, groups)

\* lines 241-254: the entries from position k on, in the declared order
RECURSIVE ApplyFilters(_, _)
ApplyFilters(k, st) ==
    IF st.panicked \/ k > Len(MEV_FILTER) THEN [st EXCEPT !.idx = k]
    ELSE LET r == ApplyFilterEntry(MEV_FILTER[k], st.groups)
         IN IF r.panicked
            THEN [panicked |-> TRUE, groups |-> r.groups, idx |-> k]
            ELSE ApplyFilters(k + 1, [panicked |-> FALSE, groups |-> r.groups, idx |-> k + 1])

\* the whole resolution of one raw list: the header, the groups after the
\* table, and whether a step panicked
Resolve(pre, data) ==
    LET st == ApplyFilters(1, [panicked |-> FALSE, groups |-> GroupByType(data), idx |-> 1])
    IN [panicked |-> st.panicked, groups |-> st.groups, idx |-> st.idx,
        header |-> BuildMevHeader(pre, data)]

----------------------------------------------------------------------------
(* The inspector tasks of one scope *)

Inspectors == 1..NumInspectors

\* what one inspector may return for a block
InspectorOutputs ==
    { <<>>,
      <<MkBundle("Sandwich", <<1, 2>>)>>,
      <<MkBundle("Backrun", <<1>>), MkBundle("Backrun", <<2>>)>>,
      <<MkBundle("Backrun", <<1, 2>>)>>,
      <<MkBundle("Jit", <<2>>)>> }

\* no scope yet
NoTasks == <<>>

\* lines 127-129: one task spawned per element of the orchestra, in its order
Spawned ==
    [k \in 1..NumInspectors |-> [inspector |-> k, status |-> "running", out |-> <<>>]]

\* a scope that ends on its first finished task instead of on all of them
ScopeDoneAny(ts) == \E k \in DOMAIN ts : ts[k].status \in {"ok", "err"}

\* scope.collect() is ready once every join handle is
ScopeDone(ts) == \A k \in DOMAIN ts : ts[k].status \in {"ok", "err"}

\* a collect that gives up every result when one task failed
CollectAllOrNothing(ts) ==
    IF \E k \in DOMAIN ts : ts[k].status = "err" THEN <<>>
    ELSE ConcatAll([k \in DOMAIN ts |-> ts[k].out])

\* lines 131-136: the join results in spawn order, the Err ones dropped by
\* the first flatten, the Vecs concatenated by the second
Collect(ts) ==
    ConcatAll([k \in DOMAIN ts |-> IF ts[k].status = "ok" THEN ts[k].out ELSE <<>>])

\* no function is examined on its own
NoCall == [fn |-> "None"]

NoResult == [kind |-> "None", header |-> NoHeader, bundles |-> <<>>]
PendingResult == [kind |-> "Pending", header |-> NoHeader, bundles |-> <<>>]
PanicResult == [kind |-> "Panic", header |-> NoHeader, bundles |-> <<>>]

----------------------------------------------------------------------------
(* The Composer's life cycle *)

\* Composer::new
Init ==
    /\ inspectors_execution = "None"
    /\ pre_processing = "None"
    /\ is_finished = FALSE
    /\ tasks = NoTasks
    /\ orchestra_data = <<>>
    /\ header = NoHeader
    /\ sorted_mev = EmptyMap
    /\ filter_idx = 1
    /\ pc = "idle"
    /\ poll_result = NoResult
    /\ starts = 0
    /\ ready_count = 0
    /\ finished_entries = 0
    /\ call = NoCall
    /\ ret = NoCall

\* on_new_tree: one task per inspector, the future stored, then pre_process.
\* A scope stored before is dropped with the Option's old value
OnNewTree(tree) ==
    /\ pc # "panicked"
    /\ starts < MaxStarts
    /\ tasks' = Spawned
    /\ inspectors_execution' = "Some"
    /\ pre_processing' = PreProcess(tree)
    /\ starts' = starts + 1
    /\ orchestra_data' = <<>>
    /\ header' = NoHeader
    /\ sorted_mev' = EmptyMap
    /\ filter_idx' = 1
    /\ pc' = "idle"
    /\ UNCHANGED <<call, ret, is_finished, poll_result, ready_count, finished_entries>>

\* an inspector's process_tree returns its bundles
TaskReturns(i) ==
    /\ pc # "panicked"
    /\ i \in DOMAIN tasks
    /\ tasks[i].status = "running"
    /\ \E out \in InspectorOutputs :
          tasks' = [tasks EXCEPT ![i] = [@ EXCEPT !.status = "ok", !.out = out]]
    /\ UNCHANGED <<call, ret, inspectors_execution, pre_processing, is_finished, orchestra_data,
                   header, sorted_mev, filter_idx, pc, poll_result, starts,
                   ready_count, finished_entries>>

\* an inspector's task ends with a JoinError
TaskFails(i) ==
    /\ pc # "panicked"
    /\ i \in DOMAIN tasks
    /\ tasks[i].status = "running"
    /\ tasks' = [tasks EXCEPT ![i] = [@ EXCEPT !.status = "err"]]
    /\ UNCHANGED <<call, ret, inspectors_execution, pre_processing, is_finished, orchestra_data,
                   header, sorted_mev, filter_idx, pc, poll_result, starts,
                   ready_count, finished_entries>>

\* poll with no future stored (line 379)
PollIdle ==
    /\ pc # "panicked"
    /\ inspectors_execution = "None"
    /\ poll_result' = PendingResult
    /\ UNCHANGED <<call, ret, inspectors_execution, pre_processing, is_finished, tasks,
                   orchestra_data, header, sorted_mev, filter_idx, pc, starts,
                   ready_count, finished_entries>>

\* poll while the scope is not done: the future is put back (lines 373-376)
PollPending ==
    /\ pc # "panicked"
    /\ inspectors_execution = "Some"
    /\ ~ScopeDone(tasks)
    /\ inspectors_execution' = "Some"
    /\ poll_result' = PendingResult
    /\ UNCHANGED <<call, ret, pre_processing, is_finished, tasks, orchestra_data, header,
                   sorted_mev, filter_idx, pc, starts, ready_count, finished_entries>>

\* what on_orchestra_resolution can do with the collected data: panic in a
\* step, or return Ready with the groups flattened in one of the orders the
\* HashMap may iterate in
PollOutcomes(pre, data) ==
    LET r == Resolve(pre, data)
    IN IF r.panicked
       THEN {[resolved |-> r, finished |-> FALSE, result |-> PanicResult]}
       ELSE {[resolved |-> r, finished |-> TRUE,
              result |-> [kind |-> "Ready", header |-> r.header,
                          bundles |-> FlattenValues(r.groups, order)]] :
                order \in PermSeqs(DOMAIN r.groups)}

\* line 370 and line 372: a future is stored and its scope is done
PollResolveGuard ==
    /\ pc # "panicked"
    /\ inspectors_execution = "Some"
    /\ ScopeDone(tasks)

\* poll once the scope is done: the future is taken and the whole of
\* on_orchestra_resolution runs (line 372)
PollResolve ==
    /\ PollResolveGuard
    /\ \E o \in PollOutcomes(pre_processing, Collect(tasks)) :
          /\ inspectors_execution' = "None"
          /\ pre_processing' = "None"
          /\ orchestra_data' = Collect(tasks)
          /\ header' = o.resolved.header
          /\ sorted_mev' = o.resolved.groups
          /\ filter_idx' = o.resolved.idx
          /\ poll_result' = o.result
          /\ pc' = IF o.finished THEN "done" ELSE "panicked"
          /\ is_finished' = (is_finished \/ o.finished)
          /\ finished_entries' = finished_entries + (IF o.finished THEN 1 ELSE 0)
          /\ ready_count' = ready_count + (IF o.finished THEN 1 ELSE 0)
    /\ UNCHANGED <<call, ret, tasks, starts>>

Poll == PollIdle \/ PollPending \/ PollResolve

Next ==
    \/ \E tree \in Trees : OnNewTree(tree)
    \/ \E i \in Inspectors : TaskReturns(i)
    \/ \E i \in Inspectors : TaskFails(i)
    \/ Poll

Spec == Init /\ [][Next]_vars

\* the runtime runs every spawned task to its end and the caller awaits the
\* composer, so it keeps being polled
FairSpec ==
    /\ Spec
    /\ \A i \in Inspectors : WF_vars(TaskReturns(i) \/ TaskFails(i))
    /\ WF_vars(PollIdle \/ PollPending)
    \* WF_vars(PollResolve), its ENABLED written as the guard of PollResolve
    /\ ([]<>~PollResolveGuard) \/ ([]<><<PollResolve>>_vars)

----------------------------------------------------------------------------
(* on_orchestra_resolution, step by step, on every raw list *)

\* inside poll, after the future was taken: inspector 1 returned the raw list
ResolveInit ==
    /\ inspectors_execution = "None"
    /\ pre_processing = PreProcess(ExampleTree)
    /\ is_finished = FALSE
    /\ \E raw \in RawLists :
          /\ tasks = [k \in Inspectors |->
                        [inspector |-> k, status |-> "ok",
                         out |-> IF k = 1 THEN raw ELSE <<>>]]
          /\ orchestra_data = raw
    /\ header = NoHeader
    /\ sorted_mev = EmptyMap
    /\ filter_idx = 1
    /\ pc = "build_header"
    /\ poll_result = PendingResult
    /\ starts = 1
    /\ ready_count = 0
    /\ finished_entries = 0
    /\ call = NoCall
    /\ ret = NoCall

\* lines 227-239: the header, then the groups
BuildHeaderStep ==
    /\ pc = "build_header"
    /\ header' = BuildMevHeader(pre_processing, orchestra_data)
    /\ pre_processing' = "None"
    /\ sorted_mev' = GroupByType(orchestra_data)
    /\ pc' = "filter"
    /\ UNCHANGED <<call, ret, inspectors_execution, is_finished, tasks, orchestra_data, filter_idx,
                   poll_result, starts, ready_count, finished_entries>>

\* lines 241-254: the next entry of MEV_FILTER
FilterStep ==
    /\ pc = "filter"
    /\ filter_idx <= Len(MEV_FILTER)
    /\ LET r == ApplyFilterEntry(MEV_FILTER[filter_idx], sorted_mev)
       IN /\ sorted_mev' = r.groups
          /\ IF r.panicked
             THEN /\ pc' = "panicked"
                  /\ poll_result' = PanicResult
                  /\ filter_idx' = filter_idx
             ELSE /\ pc' = "filter"
                  /\ poll_result' = poll_result
                  /\ filter_idx' = filter_idx + 1
    /\ UNCHANGED <<call, ret, inspectors_execution, pre_processing, is_finished, tasks,
                   orchestra_data, header, starts, ready_count, finished_entries>>

\* lines 256-259: Finished, and the result
FinishStep ==
    /\ pc = "filter"
    /\ filter_idx > Len(MEV_FILTER)
    /\ is_finished' = TRUE
    /\ finished_entries' = finished_entries + 1
    /\ ready_count' = ready_count + 1
    /\ pc' = "done"
    /\ \E order \in PermSeqs(DOMAIN sorted_mev) :
          poll_result' = [kind |-> "Ready", header |-> header,
                          bundles |-> FlattenValues(sorted_mev, order)]
    /\ UNCHANGED <<call, ret, inspectors_execution, pre_processing, tasks, orchestra_data, header,
                   sorted_mev, filter_idx, starts>>

ResolveNext == BuildHeaderStep \/ FilterStep \/ FinishStep

ResolveSpec == ResolveInit /\ [][ResolveNext]_vars

----------------------------------------------------------------------------
(* Vocabulary of the properties *)

\* two transaction-hash lists share a hash (equal lists of hashes do)
SetsMeet(a, b) == Range(a) \cap Range(b) # {}

\* the group of a type, empty when the map has no such key
GroupOf(groups, t) == IF t \in DOMAIN groups THEN groups[t] ELSE <<>>

\* the bundles of every group of a map, in some order
AllBundles(groups) ==
    FlattenValues(groups, CHOOSE order \in PermSeqs(DOMAIN groups) : TRUE)

OfType(data, t) == SelectSeq(data, LAMBDA b : b.mev_type = t)

AllTasksFinished == \A k \in DOMAIN tasks : tasks[k].status \in {"ok", "err"}

\* the elements of s at the positions in K, in the order of s
RECURSIVE KeepFrom(_, _, _)
KeepFrom(s, K, i) ==
    IF i > Len(s) THEN <<>>
    ELSE (IF i \in K THEN <<s[i]>> ELSE <<>>) \o KeepFrom(s, K, i + 1)

----------------------------------------------------------------------------
(* The Composer's life cycle: C1 - C4, C9 *)

\* C1: for one Composer and any sequence of on_new_tree and poll calls the
\* Finished state is entered at most once: is_finished is set at most one time.
C1_FinishedEnteredOnce == finished_entries <= 1

\* C2: on_new_tree spawns exactly one task per registered inspector, and a
\* poll returns Ready only when every one of those tasks has finished.
C2_ReadyOnlyAfterAllTasks ==
    /\ inspectors_execution = "Some" =>
          /\ Len(tasks) = NumInspectors
          /\ \A i \in Inspectors :
                Cardinality({k \in DOMAIN tasks : tasks[k].inspector = i}) = 1
    /\ pc = "done" =>
          /\ ready_count >= 1
          /\ Len(tasks) = NumInspectors
          /\ AllTasksFinished

\* a poll has returned Ready with all N tasks finished, one of them with bundles
C2_Witness ==
    /\ pc = "done"
    /\ poll_result.kind = "Ready"
    /\ AllTasksFinished
    /\ \E k \in DOMAIN tasks : tasks[k].status = "ok" /\ tasks[k].out # <<>>

\* C3: after one on_new_tree, poll returns Ready exactly one time, on the
\* first poll after all tasks have finished (the poll that takes the future);
\* before on_new_tree, and while the future is still stored, never.
C3_ReadyExactlyOnce ==
    /\ starts = 0 => ready_count = 0
    /\ starts = 1 =>
          IF inspectors_execution = "None" THEN ready_count = 1 ELSE ready_count = 0

\* C4: once on_new_tree was called, with every task ending and the composer
\* being polled again and again, the composer eventually returns Ready and
\* is_finished() is true.
C4_EventuallyFinished ==
    (inspectors_execution = "Some") ~>
        (inspectors_execution = "None" /\ poll_result.kind = "Ready" /\ is_finished)

\* the bundles of the tasks that returned, in spawn order
C9_SuccessfulConcat ==
    ConcatAll([k \in DOMAIN tasks |-> IF tasks[k].status = "ok" THEN tasks[k].out ELSE <<>>])

\* C9: when an inspector task fails and the others return, the composer
\* still resolves: the list handed to resolution is the concatenation, in
\* spawn order, of the lists of the tasks that returned, nothing of it lost
\* or altered, and the resolution ends as it does on that list.
C9_FailureIsolation ==
    (pc \in {"done", "panicked"} /\ \E k \in DOMAIN tasks : tasks[k].status = "err") =>
        /\ AllTasksFinished
        /\ orchestra_data = C9_SuccessfulConcat
        /\ (pc = "panicked") = Resolve(PreProcess(<<>>), C9_SuccessfulConcat).panicked
        /\ pc = "done" =>
              /\ is_finished
              /\ ready_count >= 1
              /\ header.mev_count = Len(C9_SuccessfulConcat)

\* one task failed, another returned bundles, and the poll returned Ready
C9_Witness ==
    /\ pc = "done"
    /\ poll_result.kind = "Ready"
    /\ \E k \in DOMAIN tasks : tasks[k].status = "err"
    /\ \E k \in DOMAIN tasks : tasks[k].status = "ok" /\ tasks[k].out # <<>>
    /\ orchestra_data # <<>>

----------------------------------------------------------------------------
(* on_orchestra_resolution: C5 - C8 *)

\* C5: the order of the raw bundles does not change the result: every
\* reordering of the raw list that resolves gives the same multiset of final
\* bundles and the same header.
C5_OrderIndependent ==
    pc = "done" =>
        \A p \in Reorderings(orchestra_data) :
            LET r == Resolve(PreProcess(ExampleTree), p)
            IN ~r.panicked =>
                  /\ BagOf(AllBundles(r.groups)) = BagOf(poll_result.bundles)
                  /\ r.header = poll_result.header

\* C6: in the returned pair, mev_count is the number of returned bundles and
\* total_bribe and cumulative_mev_priority_fee_paid are the sums over them.
C6_HeaderFromReturnedBundles ==
    pc = "done" =>
        LET h == poll_result.header
            out == poll_result.bundles
        IN /\ h.mev_count = Len(out)
           /\ h.total_bribe = SumSeq([i \in DOMAIN out |-> out[i].bribe])
           /\ h.cumulative_mev_priority_fee_paid =
                 SumSeq([i \in DOMAIN out |-> out[i].priority_fee])

\* a Backrun or CexDex bundle of `list` shares a hash with a raw Sandwich bundle
C7_SubsumedIn(list) ==
    \E i \in DOMAIN list : \E j \in DOMAIN orchestra_data :
        /\ list[i].mev_type \in {"Backrun", "CexDex"}
        /\ orchestra_data[j].mev_type = "Sandwich"
        /\ SetsMeet(list[i].hashes, orchestra_data[j].hashes)

\* C7: once the Sandwich => {Backrun, CexDex} entry is applied, no Backrun or
\* CexDex bundle that shares a hash with a Sandwich bundle is left in the
\* groups or in the final output, and the Sandwich group is as it was.
C7_Subsumption ==
    /\ (pc = "filter" /\ filter_idx >= 2) =>
          ~C7_SubsumedIn(GroupOf(sorted_mev, "Backrun") \o GroupOf(sorted_mev, "CexDex"))
    /\ (pc = "filter" /\ filter_idx = 2) =>
          GroupOf(sorted_mev, "Sandwich") = OfType(orchestra_data, "Sandwich")
    /\ pc = "done" => ~C7_SubsumedIn(poll_result.bundles)

\* C8 as claimed: whenever a raw Sandwich bundle and a raw Jit bundle share a
\* hash, the final output holds the JitSandwich bundle made of the two and
\* holds neither of the two.
C8_EveryOverlapComposed ==
    pc = "done" =>
        \A s \in Range(OfType(orchestra_data, "Sandwich")) :
            \A j \in Range(OfType(orchestra_data, "Jit")) :
                SetsMeet(s.hashes, j.hashes) =>
                    /\ \E b \in Range(poll_result.bundles) :
                          b.mev_type = "JitSandwich" /\ b.parts = <<s, j>>
                    /\ s \notin Range(poll_result.bundles)
                    /\ j \notin Range(poll_result.bundles)

\* for each Sandwich bundle in group order, the position of the first Jit
\* bundle not used before that shares a hash with it, 0 when there is none
RECURSIVE C8_FirstMatches(_, _, _, _)
C8_FirstMatches(S, J, k, used) ==
    IF k > Len(S) THEN <<>>
    ELSE LET cand == {j \in DOMAIN J \ used : SetsMeet(S[k].hashes, J[j].hashes)}
             m == IF cand = {} THEN 0 ELSE CHOOSE j \in cand : \A o \in cand : j <= o
         IN <<m>> \o C8_FirstMatches(S, J, k + 1, IF m = 0 THEN used ELSE used \cup {m})

\* the composition step took the groups g to the groups h
C8_Composed(g, h) ==
    LET S == GroupOf(g, "Sandwich")
        J == GroupOf(g, "Jit")
        m == C8_FirstMatches(S, J, 1, {})
        matched == {k \in DOMAIN S : m[k] # 0}
        new == SubSeq(GroupOf(h, "JitSandwich"),
                      Len(GroupOf(g, "JitSandwich")) + 1, Len(GroupOf(h, "JitSandwich")))
        ks == KeepFrom([k \in DOMAIN S |-> k], matched, 1)
        pairs == [i \in DOMAIN ks |-> <<S[ks[i]], J[m[ks[i]]]>>]
    IN /\ GroupOf(h, "Sandwich") = KeepFrom(S, DOMAIN S \ matched, 1)
       /\ GroupOf(h, "Jit") = KeepFrom(J, DOMAIN J \ Range(m), 1)
       /\ Len(GroupOf(h, "JitSandwich")) = Len(GroupOf(g, "JitSandwich")) + Cardinality(matched)
       /\ Len(new) = Len(pairs)
       /\ \A i \in DOMAIN new :
             new[i].mev_type = "JitSandwich" /\ new[i].parts = pairs[i]

\* C8, amended: in the composition step each Sandwich bundle, in group order,
\* that shares a hash with a Jit bundle not yet consumed is removed together
\* with the first such Jit bundle, and exactly one new JitSandwich bundle made
\* of the two is added; a Sandwich bundle with no such Jit bundle stays. A
\* final output holds exactly the bundles of the groups after that step.
C8_ComposeFirstMatch ==
    [][ /\ (pc = "filter" /\ filter_idx = 2 /\ pc' = "filter" /\ filter_idx' = 3) =>
              C8_Composed(sorted_mev, sorted_mev')
        /\ (pc = "filter" /\ pc' = "done") =>
              BagOf(poll_result'.bundles) = BagOf(AllBundles(sorted_mev)) ]_vars

\* a resolution whose output holds a JitSandwich bundle composed of a raw
\* Sandwich and a raw Jit bundle, next to a Sandwich bundle left standalone
C8_Witness ==
    /\ pc = "done"
    /\ \E b \in Range(poll_result.bundles) :
          /\ b.mev_type = "JitSandwich"
          /\ Len(b.parts) = 2
          /\ b.parts[1] \in Range(orchestra_data)
          /\ b.parts[2] \in Range(orchestra_data)
    /\ \E b \in Range(poll_result.bundles) : b.mev_type = "Sandwich"

----------------------------------------------------------------------------
(* The dependency table as the macro builds it: C11 *)

\* lines 50-54: one entry as mev_composability! expands it
MkEntry(head, deps) ==
    [head |-> head, compose_fn |-> get_compose_fn(head), deps |-> deps]

\* tables the macro accepts ($($deps:ident),+ takes one or more types): the
\* table of lines 61-66, and tables whose JitSandwich entry names one or three
\* dependency types
Tables ==
    { MEV_FILTER,
      << MkEntry("Sandwich", <<"Backrun", "CexDex">>),
         MkEntry("JitSandwich", <<"Sandwich">>) >>,
      << MkEntry("Sandwich", <<"Backrun", "CexDex">>),
         MkEntry("JitSandwich", <<"Sandwich", "Jit", "Backrun">>) >>,
      << MkEntry("JitSandwich", <<"Jit">>),
         MkEntry("Sandwich", <<"Backrun", "CexDex">>) >> }

\* an entry with a compose function and not exactly two dependency types
MalformedEntry(entry) == entry.compose_fn # "None" /\ Len(entry.deps) # 2
Malformed(table) == \E k \in DOMAIN table : MalformedEntry(table[k])

\* Composer::new in a build whose MEV_FILTER is `table`. The lazy_static is
\* not evaluated here: its initializer runs at the first dereference, line 241
TableInit ==
    /\ inspectors_execution = "None"
    /\ pre_processing = "None"
    /\ is_finished = FALSE
    /\ tasks = NoTasks
    /\ orchestra_data = <<>>
    /\ header = NoHeader
    /\ sorted_mev = EmptyMap
    /\ filter_idx = 1
    /\ pc = "idle"
    /\ poll_result = NoResult
    /\ starts = 0
    /\ ready_count = 0
    /\ finished_entries = 0
    /\ \E table \in Tables : call = [fn |-> "MEV_FILTER", table |-> table]
    /\ ret = NoCall

\* the caller is between two calls on the Composer
BetweenCalls == pc \in {"idle", "done"}

\* lines 370-372: the future is taken, the scope is done, and
\* on_orchestra_resolution is entered with the collected data
TablePollTake ==
    /\ BetweenCalls
    /\ PollResolveGuard
    /\ inspectors_execution' = "None"
    /\ orchestra_data' = Collect(tasks)
    /\ pc' = "build_header"
    /\ UNCHANGED <<call, ret, pre_processing, is_finished, tasks, header, sorted_mev,
                   filter_idx, poll_result, starts, ready_count, finished_entries>>

\* lines 241-254 with the table of the build: the next entry. The initializer
\* of the lazy_static (lines 49-55) runs at the first of these steps and
\* checks nothing; line 325 checks the entry that is being applied
TableFilterStep ==
    /\ pc = "filter"
    /\ filter_idx <= Len(call.table)
    /\ LET r == ApplyFilterEntry(call.table[filter_idx], sorted_mev)
       IN /\ sorted_mev' = r.groups
          /\ IF r.panicked
             THEN /\ pc' = "panicked"
                  /\ poll_result' = PanicResult
                  /\ filter_idx' = filter_idx
             ELSE /\ pc' = "filter"
                  /\ poll_result' = poll_result
                  /\ filter_idx' = filter_idx + 1
    /\ UNCHANGED <<call, ret, inspectors_execution, pre_processing, is_finished, tasks,
                   orchestra_data, header, starts, ready_count, finished_entries>>

\* lines 256-259 with the table of the build
TableFinishStep ==
    /\ pc = "filter"
    /\ filter_idx > Len(call.table)
    /\ is_finished' = TRUE
    /\ finished_entries' = finished_entries + 1
    /\ ready_count' = ready_count + 1
    /\ pc' = "done"
    /\ \E order \in PermSeqs(DOMAIN sorted_mev) :
          poll_result' = [kind |-> "Ready", header |-> header,
                          bundles |-> FlattenValues(sorted_mev, order)]
    /\ UNCHANGED <<call, ret, inspectors_execution, pre_processing, tasks, orchestra_data,
                   header, sorted_mev, filter_idx, starts>>

TableNext ==
    \/ BetweenCalls /\ \E tree \in Trees : OnNewTree(tree)
    \/ BetweenCalls /\ \E i \in Inspectors : TaskReturns(i)
    \/ BetweenCalls /\ \E i \in Inspectors : TaskFails(i)
    \/ BetweenCalls /\ PollIdle
    \/ BetweenCalls /\ PollPending
    \/ TablePollTake
    \/ BuildHeaderStep
    \/ TableFilterStep
    \/ TableFinishStep

TableSpec == TableInit /\ [][TableNext]_vars

----------------------------------------------------------------------------
(* pre_process on u64 values: C12 *)

\* longest list of transaction roots of a tree (PreProcessSpec)
MaxRoots == 2

\* a u64 has eight digits of base 256
U64Digits == 8

\* natural numbers of any size: their digits of base 256, least significant
\* first, without leading zeros
RECURSIVE ToDigits(_)
ToDigits(n) == IF n = 0 THEN <<>> ELSE <<n % 256>> \o ToDigits(n \div 256)

RECURSIVE Normalize(_)
Normalize(a) ==
    IF a = <<>> THEN <<>>
    ELSE IF a[Len(a)] = 0 THEN Normalize(SubSeq(a, 1, Len(a) - 1))
    ELSE a

RECURSIVE AddDigits(_, _, _)
AddDigits(a, b, carry) ==
    IF a = <<>> /\ b = <<>> THEN ToDigits(carry)
    ELSE LET x == IF a = <<>> THEN 0 ELSE Head(a)
             y == IF b = <<>> THEN 0 ELSE Head(b)
             t == x + y + carry
         IN <<t % 256>> \o AddDigits(IF a = <<>> THEN <<>> ELSE Tail(a),
                                     IF b = <<>> THEN <<>> ELSE Tail(b), t \div 256)

RECURSIVE MulDigit(_, _, _)
MulDigit(a, d, carry) ==
    IF a = <<>> THEN ToDigits(carry)
    ELSE LET t == Head(a) * d + carry
         IN <<t % 256>> \o MulDigit(Tail(a), d, t \div 256)

RECURSIVE MulDigits(_, _)
MulDigits(a, b) ==
    IF b = <<>> THEN <<>>
    ELSE AddDigits(MulDigit(a, Head(b), 0), <<0>> \o MulDigits(a, Tail(b)), 0)

\* the exact sum and product of two naturals
NatAdd(a, b) == Normalize(AddDigits(a, b, 0))
NatMul(a, b) == Normalize(MulDigits(a, b))

\* 2^32 and u64::MAX
TwoTo32 == <<0, 0, 0, 0, 1>>
U64Max == [i \in 1..U64Digits |-> 255]

\* the value a u64 keeps of a natural: its low 64 bits
FitsU64(a) == Len(a) <= U64Digits
WrapU64(a) == IF FitsU64(a) THEN a ELSE Normalize(SubSeq(a, 1, U64Digits))

\* `+` and `*` on u64: the wrapped value, and whether the operation overflowed
U64Add(a, b) ==
    [overflow |-> ~FitsU64(NatAdd(a, b)), value |-> WrapU64(NatAdd(a, b))]
U64Mul(a, b) ==
    [overflow |-> ~FitsU64(NatMul(a, b)), value |-> WrapU64(NatMul(a, b))]

\* Iterator::sum::<u64>: the items added one after the other from 0; an item
\* carries the overflow of the operation that made it
RECURSIVE SumU64(_, _)
SumU64(items, acc) ==
    IF items = <<>> THEN acc
    ELSE LET r == U64Add(acc.value, Head(items).value)
         IN SumU64(Tail(items),
                   [overflow |-> acc.overflow \/ Head(items).overflow \/ r.overflow,
                    value |-> r.value])

\* the two profiles of the build: overflow checks on (an overflowing u64
\* operation panics) and off (it wraps)
Builds == {"debug", "release"}

\* lines 143-163 on a tree whose roots carry u64 gas details
pre_process(tree, build) ==
    LET used == SumU64([i \in DOMAIN tree |->
                           [overflow |-> FALSE, value |-> tree[i].gas_used]],
                       [overflow |-> FALSE, value |-> <<>>])
        paid == SumU64([i \in DOMAIN tree |->
                           U64Mul(tree[i].effective_gas_price, tree[i].gas_used)],
                       [overflow |-> FALSE, value |-> <<>>])
    IN IF build = "debug" /\ (used.overflow \/ paid.overflow)
       THEN [panicked |-> TRUE, pre_processing |-> "None"]
       ELSE [panicked |-> FALSE,
             pre_processing |-> [cumulative_gas_used |-> used.value,
                                 cumulative_gas_paid |-> paid.value]]

\* gas details of a root: the values of the example, and large u64 values
GasUsedValues == {ToDigits(21000), ToDigits(50000), TwoTo32, U64Max}
GasPriceValues == {ToDigits(10), ToDigits(20), TwoTo32}
GasRoots == [gas_used : GasUsedValues, effective_gas_price : GasPriceValues]
GasTrees == SeqsUpTo(GasRoots, MaxRoots)

PreProcessInit ==
    /\ inspectors_execution = "Some"
    /\ pre_processing = "None"
    /\ is_finished = FALSE
    /\ tasks = Spawned
    /\ orchestra_data = <<>>
    /\ header = NoHeader
    /\ sorted_mev = EmptyMap
    /\ filter_idx = 1
    /\ pc = "idle"
    /\ poll_result = NoResult
    /\ starts = 1
    /\ ready_count = 0
    /\ finished_entries = 0
    /\ \E tree \in GasTrees, build \in Builds :
          call = [fn |-> "pre_process", tree |-> tree, build |-> build]
    /\ ret = NoCall

\* line 140: on_new_tree calls pre_process
CallPreProcess ==
    /\ call.fn = "pre_process"
    /\ ret = NoCall
    /\ LET r == pre_process(call.tree, call.build)
       IN /\ pre_processing' = r.pre_processing
          /\ ret' = [fn |-> "pre_process", panicked |-> r.panicked]
    /\ UNCHANGED <<call, inspectors_execution, is_finished, tasks, orchestra_data, header,
                   sorted_mev, filter_idx, pc, poll_result, starts, ready_count,
                   finished_entries>>

PreProcessSpec == PreProcessInit /\ [][CallPreProcess]_vars

\* the exact sums over the roots of a tree
RECURSIVE ExactGasUsed(_)
ExactGasUsed(tree) ==
    IF tree = <<>> THEN <<>>
    ELSE NatAdd(Head(tree).gas_used, ExactGasUsed(Tail(tree)))

RECURSIVE ExactGasPaid(_)
ExactGasPaid(tree) ==
    IF tree = <<>> THEN <<>>
    ELSE NatAdd(NatMul(Head(tree).effective_gas_price, Head(tree).gas_used),
                ExactGasPaid(Tail(tree)))

\* C12: for every list of roots with u64 gas details pre_process returns, and
\* cumulative_gas_used is the exact sum of gas_used and cumulative_gas_paid
\* the exact sum of effective_gas_price * gas_used.
C12_ExactGasSums ==
    ret.fn = "pre_process" =>
        /\ ~ret.panicked
        /\ pre_processing.cumulative_gas_used = ExactGasUsed(call.tree)
        /\ pre_processing.cumulative_gas_paid = ExactGasPaid(call.tree)

----------------------------------------------------------------------------
(* The atomic backrun inspector (atomic_backrun.rs): C13 - C16 *)

\* longest flattened swap list of a transaction (ArbSpec)
MaxSwaps == 3
\* most transactions of a block (TreeSpec)
MaxTxs == 3

\* token and pool addresses
Tokens == {"A", "B", "C"}
Pools == {"P", "Q", "R"}

\* NormalizedSwap, as far as the inspector reads it
NormalizedSwaps == [pool : Pools, token_in : Tokens, token_out : Tokens]

\* Actions: a swap, a transfer, a flash loan with its child actions
NoSwap == [pool |-> "None", token_in |-> "None", token_out |-> "None"]
SwapAction(s) == [kind |-> "Swap", swap |-> s, child_actions |-> <<>>]
TransferAction == [kind |-> "Transfer", swap |-> NoSwap, child_actions |-> <<>>]
FlashLoanAction(children) ==
    [kind |-> "FlashLoan", swap |-> NoSwap, child_actions |-> children]

is_swap(a) == a.kind = "Swap"
is_flash_loan(a) == a.kind = "FlashLoan"

\* a flattening that takes the direct Swap actions and skips the flash loans
FlattenDirectOnly(actions) ==
    LET direct == SelectSeq(actions, LAMBDA a : a.kind = "Swap")
    IN [i \in DOMAIN direct |-> direct[i].swap]

\* lines 62-76: the swaps of the actions, a flash loan giving its child swaps
RECURSIVE FlattenSwaps(_)
FlattenSwaps(actions) ==
    IF actions = <<>> THEN <<>>
    ELSE LET a == Head(actions)
             here ==
                IF is_swap(a) THEN <<a.swap>>
                ELSE IF is_flash_loan(a)
                THEN LET kids == SelectSeq(a.child_actions, is_swap)
                     IN [i \in DOMAIN kids |-> kids[i].swap]
                ELSE <<>>
         IN here \o FlattenSwaps(Tail(actions))

\* lines 108-113: the swaps put into the bundle, the direct Swap actions
RECURSIVE PayloadSwaps(_)
PayloadSwaps(actions) ==
    IF actions = <<>> THEN <<>>
    ELSE (IF is_swap(Head(actions)) THEN <<Head(actions).swap>> ELSE <<>>)
         \o PayloadSwaps(Tail(actions))

\* a two-swap test without the `|| start == mid` of line 133
TwoSwapRejectedNoDegenerate(start, mid, mid1, end) ==
    ~((start = end /\ mid = mid1) \/ (start # end \/ mid # mid1))

\* line 133: the condition under which two swaps are not an arbitrage
TwoSwapRejected(start, mid, mid1, end) ==
    ~((start = end /\ mid = mid1) \/ (start # end \/ mid # mid1)) \/ start = mid

\* a test that also rejects as many unique tokens as pools
ManySwapRejectedLeq(swaps) ==
    LET pools == Cardinality({swaps[i].pool : i \in DOMAIN swaps})
        unique_tokens ==
            Cardinality({swaps[i].token_in : i \in DOMAIN swaps}
                        \cup {swaps[i].token_out : i \in DOMAIN swaps})
    IN unique_tokens <= pools /\ unique_tokens <= 3

\* lines 137-157: pools and unique tokens of three or more swaps
ManySwapRejected(swaps) ==
    LET pools == Cardinality({swaps[i].pool : i \in DOMAIN swaps})
        unique_tokens ==
            Cardinality({swaps[i].token_in : i \in DOMAIN swaps}
                        \cup {swaps[i].token_out : i \in DOMAIN swaps})
    IN unique_tokens < pools /\ unique_tokens <= 3

\* lines 120-160: TRUE for Some(()), FALSE for None
is_possible_arb(swaps) ==
    IF Len(swaps) <= 1 THEN FALSE
    ELSE IF Len(swaps) = 2
    THEN ~TwoSwapRejected(swaps[1].token_in, swaps[1].token_out,
                          swaps[2].token_in, swaps[2].token_out)
    ELSE ~ManySwapRejected(swaps)

\* Rational: a fraction with a positive denominator
Rat(n, d) == [num |-> n, den |-> d]
\* the None of an Option<Rational>
NoRat == [num |-> 0, den |-> 0]
RatSub(a, b) == Rat(a.num * b.den - b.num * a.den, a.den * b.den)
RatEq(a, b) == a.num * b.den = b.num * a.den
RatLeqZero(a) == a.num <= 0

\* binary places of a floating point value (scaled down from the 52 of f64)
FloatPlaces == 2

\* to_float: the floating point value nearest to the fraction, ties to even
to_float(q) ==
    LET scale == 2 ^ FloatPlaces
        n == q.num * scale
        lo == n \div q.den
        twice == 2 * (n - lo * q.den)
        up == twice > q.den \/ (twice = q.den /\ lo % 2 = 1)
    IN Rat(IF up THEN lo + 1 ELSE lo, scale)

\* a comparison that lets a zero difference through
ProfitableOrZero(rev_usd, gas_used_usd) == RatSub(rev_usd, gas_used_usd).num >= 0

\* line 95, negated: the candidate is kept
Profitable(rev_usd, gas_used_usd) == ~RatLeqZero(RatSub(rev_usd, gas_used_usd))

\* the None of an Option<TxInfo> and of an Option<Bundle>
NoTxInfo == [tx_hash |-> 0, tx_index |-> 0]
NoBundle == [mev_type |-> "None", tx_hash |-> 0, profit_usd |-> NoRat, swaps |-> <<>>]

\* build_bundle_header and the AtomicBackrun payload of lines 99-117
BackrunBundle(info, profit_usd, swaps) ==
    [mev_type |-> "Backrun", tx_hash |-> info.tx_hash, profit_usd |-> profit_usd,
     swaps |-> swaps]

\* lines 56-118. `valuation` is what the Valuation collaborator answers for
\* the transaction: rev_usd, the sum of usd_delta_by_address (NoRat when it
\* has no answer), and gas_usd, the gas cost in USD
process_swaps(info, valuation, actions) ==
    IF ~is_possible_arb(FlattenSwaps(actions)) THEN NoBundle
    ELSE IF valuation.rev_usd = NoRat THEN NoBundle
    ELSE IF ~Profitable(valuation.rev_usd, valuation.gas_usd) THEN NoBundle
    ELSE BackrunBundle(info, to_float(RatSub(valuation.rev_usd, valuation.gas_usd)),
                       PayloadSwaps(actions))

\* a process_tree that gives up the block when one transaction has no info
RECURSIVE ProcessTreeAllOrNothing(_)
ProcessTreeAllOrNothing(txs) ==
    IF \E i \in DOMAIN txs : txs[i].info = NoTxInfo THEN <<>>
    ELSE IF txs = <<>> THEN <<>>
    ELSE LET tx == Head(txs)
             b == process_swaps(tx.info, tx.valuation, tx.actions)
         IN (IF b = NoBundle THEN <<>> ELSE <<b>>) \o ProcessTreeAllOrNothing(Tail(txs))

\* lines 44-51: filter_map over the collected transactions, in their order;
\* get_tx_info answers tx.info
RECURSIVE process_tree(_)
process_tree(txs) ==
    IF txs = <<>> THEN <<>>
    ELSE LET tx == Head(txs)
             b == IF tx.info = NoTxInfo THEN NoBundle
                  ELSE process_swaps(tx.info, tx.valuation, tx.actions)
         IN (IF b = NoBundle THEN <<>> ELSE <<b>>) \o process_tree(Tail(txs))

\* what the Valuation collaborator may answer
Revenues == {NoRat, Rat(30, 1), Rat(40, 1), Rat(100, 1), Rat(121, 3)}
GasCosts == {Rat(40, 1)}
Valuations == [rev_usd : Revenues, gas_usd : GasCosts]

\* the actions of a transaction whose flattened swaps are `swaps`: direct
\* Swap actions next to a transfer, or one flash loan around them
DirectActions(swaps) == [i \in DOMAIN swaps |-> SwapAction(swaps[i])] \o <<TransferAction>>
WrappedActions(swaps) ==
    <<FlashLoanAction(<<TransferAction>> \o [i \in DOMAIN swaps |-> SwapAction(swaps[i])])>>
\* swap lists: every list of up to two swaps, the longer lists over the
\* swaps between two tokens in two pools, and the rings
LongSwaps ==
    {s \in NormalizedSwaps :
        /\ <<s.token_in, s.token_out>> \in {<<"A", "B">>, <<"B", "A">>, <<"A", "A">>}
        /\ s.pool \in {"P", "Q"}}
\* the first swap as a Swap action, the others inside a flash loan after it
MixedActions(swaps) ==
    IF swaps = <<>> THEN <<TransferAction>>
    ELSE <<SwapAction(swaps[1]),
           FlashLoanAction([i \in DOMAIN Tail(swaps) |-> SwapAction(Tail(swaps)[i])]
                           \o <<TransferAction>>)>>
\* rings of RingLen swaps: swap i goes from token i to token i + 1 of the
\* first n tokens, round and round, in pool i of the first k pools
RingLen == 5
RingTokens == <<"A", "B", "C", "D">>
RingPools == <<"P", "Q", "R", "S", "T">>
RingSwaps(n, k) ==
    [i \in 1..RingLen |->
        [pool |-> RingPools[((i - 1) % k) + 1],
         token_in |-> RingTokens[((i - 1) % n) + 1],
         token_out |-> RingTokens[(i % n) + 1]]]
RingLists == {RingSwaps(n, k) : n \in 2..Len(RingTokens), k \in 1..Len(RingPools)}
SwapLists ==
    SeqsUpTo(NormalizedSwaps, 2) \cup UNION {[1..n -> LongSwaps] : n \in 3..MaxSwaps}
        \cup RingLists
ActionLists ==
    UNION {{DirectActions(swaps), WrappedActions(swaps), MixedActions(swaps)} :
              swaps \in SwapLists}

TxInfoOf(h) == [tx_hash |-> h, tx_index |-> h]

\* no Composer is involved
NoComposer ==
    /\ inspectors_execution = "None"
    /\ pre_processing = "None"
    /\ is_finished = FALSE
    /\ tasks = NoTasks
    /\ orchestra_data = <<>>
    /\ header = NoHeader
    /\ sorted_mev = EmptyMap
    /\ filter_idx = 1
    /\ pc = "idle"
    /\ poll_result = NoResult
    /\ starts = 0
    /\ ready_count = 0
    /\ finished_entries = 0

ArbInit ==
    /\ NoComposer
    /\ \E actions \in ActionLists, valuation \in Valuations :
          call = [fn |-> "process_swaps", info |-> TxInfoOf(1),
                  valuation |-> valuation, actions |-> actions]
    /\ ret = NoCall

\* line 49: process_swaps on one transaction
CallProcessSwaps ==
    /\ call.fn = "process_swaps"
    /\ ret = NoCall
    /\ ret' = [fn |-> "process_swaps",
               swaps |-> FlattenSwaps(call.actions),
               possible_arb |-> is_possible_arb(FlattenSwaps(call.actions)),
               bundle |-> process_swaps(call.info, call.valuation, call.actions)]
    /\ UNCHANGED <<call, inspectors_execution, pre_processing, is_finished, tasks,
                   orchestra_data, header, sorted_mev, filter_idx, pc, poll_result,
                   starts, ready_count, finished_entries>>

ArbSpec == ArbInit /\ [][CallProcessSwaps]_vars

\* the transactions collect_all may hand to process_tree: with or without a
\* tx-info record, a two-swap cycle or a single swap, a gain or a loss
TreeActionLists ==
    { DirectActions(<<[pool |-> "P", token_in |-> "A", token_out |-> "B"],
                      [pool |-> "Q", token_in |-> "B", token_out |-> "A"]>>),
      DirectActions(<<[pool |-> "P", token_in |-> "A", token_out |-> "B"]>>) }
TreeValuations == {[rev_usd |-> Rat(100, 1), gas_usd |-> Rat(40, 1)],
                   [rev_usd |-> Rat(30, 1), gas_usd |-> Rat(40, 1)]}
TreeTxs(h) ==
    [info : {NoTxInfo, TxInfoOf(h)}, tx_hash : {h}, valuation : TreeValuations,
     actions : TreeActionLists]
Blocks ==
    UNION {{txs \in [1..n -> UNION {TreeTxs(h) : h \in 1..n}] :
               \A i \in 1..n : txs[i].tx_hash = i} : n \in 0..MaxTxs}

TreeInit ==
    /\ NoComposer
    /\ \E txs \in Blocks : call = [fn |-> "process_tree", tree |-> txs]
    /\ ret = NoCall

\* lines 30-52: process_tree on one block
CallProcessTree ==
    /\ call.fn = "process_tree"
    /\ ret = NoCall
    /\ ret' = [fn |-> "process_tree", bundles |-> process_tree(call.tree)]
    /\ UNCHANGED <<call, inspectors_execution, pre_processing, is_finished, tasks,
                   orchestra_data, header, sorted_mev, filter_idx, pc, poll_result,
                   starts, ready_count, finished_entries>>

TreeSpec == TreeInit /\ [][CallProcessTree]_vars

\* the four tokens of a two-swap list, and the cycle the detector looks for
SwapStart(swaps) == swaps[1].token_in
SwapMid(swaps) == swaps[1].token_out
SwapMid1(swaps) == swaps[2].token_in
SwapEnd(swaps) == swaps[2].token_out
IsCycle(swaps) == SwapStart(swaps) = SwapEnd(swaps) /\ SwapMid(swaps) = SwapMid1(swaps)

\* process_swaps has run on a transaction with exactly two flattened swaps
TwoSwapsDone == ret.fn = "process_swaps" /\ Len(FlattenSwaps(call.actions)) = 2

\* the valuation has an answer and the revenue exceeds the gas cost
Gains(valuation) ==
    valuation.rev_usd # NoRat /\ RatSub(valuation.rev_usd, valuation.gas_usd).num > 0

\* C13: with exactly two flattened swaps is_possible_arb accepts only if
\* start = end and mid = mid1; a two-swap input with start # end or
\* mid # mid1 is rejected and yields no bundle.
C13_OnlyCyclesAccepted ==
    TwoSwapsDone =>
        LET swaps == FlattenSwaps(call.actions)
        IN /\ ret.possible_arb => IsCycle(swaps)
           /\ ~IsCycle(swaps) => (~ret.possible_arb /\ ret.bundle = NoBundle)

\* C14: with exactly two flattened swaps, start = end, mid = mid1,
\* start # mid and a revenue above the gas cost, the detector returns one
\* Backrun bundle for the transaction; with start = mid it returns none,
\* whatever the other tokens are.
C14_CycleGivesOneBackrun ==
    TwoSwapsDone =>
        LET swaps == FlattenSwaps(call.actions)
        IN /\ (IsCycle(swaps) /\ SwapStart(swaps) # SwapMid(swaps) /\ Gains(call.valuation)) =>
                 /\ ret.bundle # NoBundle
                 /\ ret.bundle.mev_type = "Backrun"
                 /\ ret.bundle.tx_hash = call.info.tx_hash
           /\ SwapStart(swaps) = SwapMid(swaps) => ret.bundle = NoBundle

\* a gaining two-swap cycle inside a flash loan has given its Backrun bundle
C14_Witness ==
    /\ TwoSwapsDone
    /\ IsCycle(FlattenSwaps(call.actions))
    /\ SwapStart(FlattenSwaps(call.actions)) # SwapMid(FlattenSwaps(call.actions))
    /\ Gains(call.valuation)
    /\ is_flash_loan(call.actions[1])
    /\ ret.bundle.mev_type = "Backrun"

\* C15 as claimed: a candidate that passes the cycle heuristic gives a bundle
\* only if revenue - gas > 0, and then the profit of the bundle is equal to
\* revenue - gas; with revenue - gas <= 0 there is no bundle.
C15_ExactProfit ==
    (ret.fn = "process_swaps" /\ ret.possible_arb) =>
        LET diff == RatSub(call.valuation.rev_usd, call.valuation.gas_usd)
        IN /\ ret.bundle # NoBundle =>
                 (Gains(call.valuation) /\ RatEq(ret.bundle.profit_usd, diff))
           /\ (call.valuation.rev_usd # NoRat /\ diff.num <= 0) => ret.bundle = NoBundle

\* p is a floating point value nearest to the fraction q
C15_Nearest(p, q) ==
    LET d == p.num * q.den - q.num * p.den
    IN /\ p.den = 2 ^ FloatPlaces
       /\ 2 * (IF d < 0 THEN -d ELSE d) <= q.den

\* C15, amended: a candidate that passes the cycle heuristic gives a bundle
\* only if revenue - gas > 0, and then the profit of the bundle is the
\* floating point value nearest to revenue - gas (revenue - gas itself when
\* that is a floating point value: 100 and 40 give 60); with
\* revenue - gas <= 0 there is no bundle, and nothing else happens.
C15_ProfitNearestToGain ==
    (ret.fn = "process_swaps" /\ ret.possible_arb) =>
        LET diff == RatSub(call.valuation.rev_usd, call.valuation.gas_usd)
        IN /\ ret.bundle # NoBundle =>
                 /\ Gains(call.valuation)
                 /\ C15_Nearest(ret.bundle.profit_usd, diff)
                 /\ diff.den = 1 => RatEq(ret.bundle.profit_usd, diff)
           /\ (call.valuation.rev_usd # NoRat /\ diff.num <= 0) => ret.bundle = NoBundle
           /\ (call.valuation = [rev_usd |-> Rat(100, 1), gas_usd |-> Rat(40, 1)]) =>
                 RatEq(ret.bundle.profit_usd, Rat(60, 1))

\* a candidate passed the heuristic with revenue 100 and gas 40 and its
\* bundle carries the profit 60
C15_Witness ==
    /\ ret.fn = "process_swaps"
    /\ ret.possible_arb
    /\ call.valuation = [rev_usd |-> Rat(100, 1), gas_usd |-> Rat(40, 1)]
    /\ ret.bundle # NoBundle
    /\ RatEq(ret.bundle.profit_usd, Rat(60, 1))

\* C16: a transaction without a tx-info record gives no bundle and no error,
\* and the bundles of the block are those of the block without it.
C16_MissingInfoSkipped ==
    ret.fn = "process_tree" =>
        /\ \A i \in DOMAIN call.tree :
              call.tree[i].info = NoTxInfo =>
                  \A b \in Range(ret.bundles) : b.tx_hash # call.tree[i].tx_hash
        /\ ret.bundles = process_tree(SelectSeq(call.tree, LAMBDA tx : tx.info # NoTxInfo))

\* a block with a gaining cycle that has no tx-info record, next to a
\* transaction that gave its bundle
C16_Witness ==
    /\ ret.fn = "process_tree"
    /\ \E i \in DOMAIN call.tree :
          /\ call.tree[i].info = NoTxInfo
          /\ is_possible_arb(FlattenSwaps(call.tree[i].actions))
          /\ Gains(call.tree[i].valuation)
    /\ ret.bundles # <<>>

----------------------------------------------------------------------------
(* Frame and safety of the resolution steps: C17 - C20 *)

\* the entry has no dependency bundle to work on: for a subsumption entry no
\* group of a dependency type holds a bundle, for a composition entry one of
\* the two groups to be paired holds none
C17_NoDependencyBundles(entry, groups) ==
    IF entry.compose_fn # "None"
    THEN \E k \in DOMAIN entry.deps : GroupOf(groups, entry.deps[k]) = <<>>
    ELSE \A k \in DOMAIN entry.deps : GroupOf(groups, entry.deps[k]) = <<>>

\* every group has the same bundles in the same order
C17_SameGroups(g, h) == \A t \in MevType : GroupOf(g, t) = GroupOf(h, t)

C18_PendingPollNoOp ==
    [][ PollPending =>
          /\ inspectors_execution = "Some" /\ inspectors_execution' = "Some"
          /\ is_finished = FALSE /\ is_finished' = FALSE
          /\ pre_processing' = pre_processing
          /\ pre_processing' \in {PreProcess(tree) : tree \in Trees} ]_vars

\* a Backrun or CexDex bundle that shares no hash with any raw Sandwich bundle
C19_Unrelated(b) ==
    /\ b.mev_type \in {"Backrun", "CexDex"}
    /\ \A j \in DOMAIN orchestra_data :
          orchestra_data[j].mev_type = "Sandwich" =>
              ~SetsMeet(b.hashes, orchestra_data[j].hashes)

\* C19: the subsumption step removes only subsumed bundles: the Backrun and
\* CexDex bundles that share no hash with any Sandwich bundle are all still
\* in their groups after the step, in their order.
C19_OnlySubsumedRemoved ==
    (pc = "filter" /\ filter_idx = 2) =>
        \A t \in {"Backrun", "CexDex"} :
            SelectSeq(GroupOf(sorted_mev, t), C19_Unrelated)
                = SelectSeq(OfType(orchestra_data, t), C19_Unrelated)

\* C20: in the subsumption step every removal index is valid when it is
\* used (not negative, below the current length of the group): the step
\* does not panic, whatever the raw bundle list.
C20_RemovalIndexesValid ==
    /\ (pc = "filter" /\ filter_idx = 1) =>
          ~ReplaceDepFilter(MEV_FILTER[1].head, MEV_FILTER[1].deps, sorted_mev).panicked
    /\ ~(pc = "panicked" /\ filter_idx = 1)

----------------------------------------------------------------------------
(* The composition step on raw lists of Sandwich, Backrun, Jit and other bundles:
   C21, C22, C28, C29 *)

MaxMix == 4

ComposeHashVecs == {<<1>>, <<2>>, <<1, 2>>}
ComposeUniverse ==
    {MkBundle(t, h) : t \in {"Sandwich", "Backrun", "Jit", "Liquidation"},
                      h \in ComposeHashVecs}
ComposeLists == SeqsUpTo(ComposeUniverse, MaxMix)

\* inside poll, after the future was taken: inspector 1 returned the raw list
ComposeInit ==
    /\ inspectors_execution = "None"
    /\ pre_processing = PreProcess(ExampleTree)
    /\ is_finished = FALSE
    /\ \E raw \in ComposeLists :
          /\ tasks = [k \in Inspectors |->
                        [inspector |-> k, status |-> "ok",
                         out |-> IF k = 1 THEN raw ELSE <<>>]]
          /\ orchestra_data = raw
    /\ header = NoHeader
    /\ sorted_mev = EmptyMap
    /\ filter_idx = 1
    /\ pc = "build_header"
    /\ poll_result = PendingResult
    /\ starts = 1
    /\ ready_count = 0
    /\ finished_entries = 0
    /\ call = NoCall
    /\ ret = NoCall

ComposeSpec == ComposeInit /\ [][ResolveNext]_vars

\* the JitSandwich => {Sandwich, Jit} entry is being applied in this step
CompositionStep ==
    pc = "filter" /\ filter_idx = 2 /\ pc' = "filter" /\ filter_idx' = 3

\* the Sandwich bundles of the groups g, by position, that find no Jit bundle
\* left for them when their turn comes
C21_Unmatched(g) ==
    LET S == GroupOf(g, "Sandwich")
        m == C8_FirstMatches(S, GroupOf(g, "Jit"), 1, {})
    IN {k \in DOMAIN S : m[k] = 0}

\* C21: in the composition step every Sandwich bundle for which no Jit bundle
\* still in the Jit group shares a hash with it stays in the Sandwich group,
\* these bundles keep their relative order, and the final output holds
\* exactly them as its Sandwich bundles, in that order.
C21_UnmatchedSandwichStays ==
    [][ /\ CompositionStep =>
              GroupOf(sorted_mev', "Sandwich")
                  = KeepFrom(GroupOf(sorted_mev, "Sandwich"), C21_Unmatched(sorted_mev), 1)
        /\ (pc = "filter" /\ pc' = "done") =>
              OfType(poll_result'.bundles, "Sandwich") = GroupOf(sorted_mev, "Sandwich") ]_vars

\* a resolution of three Sandwich bundles of which the second was composed
\* with the only Jit bundle: the first and the third are in the output, in
\* that order
C21_Witness ==
    /\ pc = "done"
    /\ OfType(orchestra_data, "Sandwich")
          = <<MkBundle("Sandwich", <<1>>), MkBundle("Sandwich", <<2>>),
              MkBundle("Sandwich", <<1, 2>>)>>
    /\ OfType(orchestra_data, "Jit") = <<MkBundle("Jit", <<2>>)>>
    /\ OfType(poll_result.bundles, "Sandwich")
          = <<MkBundle("Sandwich", <<1>>), MkBundle("Sandwich", <<1, 2>>)>>
    /\ \E b \in Range(poll_result.bundles) : b.mev_type = "JitSandwich"

\* the composition step took the groups g to the groups h: the pairs made,
\* and what became of the Jit bundles
C22_Paired(g, h) ==
    LET S == GroupOf(g, "Sandwich")
        J == GroupOf(g, "Jit")
        m == C8_FirstMatches(S, J, 1, {})
        ks == KeepFrom([k \in DOMAIN S |-> k], {k \in DOMAIN S : m[k] # 0}, 1)
        old == Len(GroupOf(g, "JitSandwich"))
        new == SubSeq(GroupOf(h, "JitSandwich"), old + 1, Len(GroupOf(h, "JitSandwich")))
        consumed == [i \in DOMAIN new |-> new[i].parts[2]]
    IN /\ SubSeq(GroupOf(h, "JitSandwich"), 1, old) = GroupOf(g, "JitSandwich")
       /\ Len(new) = Len(ks)
       /\ \A i \in DOMAIN new :
             /\ new[i].mev_type = "JitSandwich"
             /\ new[i].parts = <<S[ks[i]], J[m[ks[i]]]>>
       /\ \A b \in Range(J) :
             Count(b, J) = Count(b, GroupOf(h, "Jit")) + Count(b, consumed)
       /\ GroupOf(h, "Jit") = KeepFrom(J, DOMAIN J \ Range(m), 1)

\* C22: in the composition step the Sandwich bundles are taken in group
\* order and each is paired with the first Jit bundle, not consumed by an
\* earlier pair, whose hashes equal or meet its own; every Jit bundle is in
\* at most one pair, and the Jit bundles in no pair stay in the Jit group, in
\* their order.
C22_FirstUnconsumedMatch ==
    [][CompositionStep => C22_Paired(sorted_mev, sorted_mev')]_vars

\* Sandwich{1,2} met both Jit bundles and took the first; Sandwich{1} came
\* after it, found Jit{1} consumed and stayed; Jit{2} stayed
C22_Witness ==
    /\ pc = "done"
    /\ orchestra_data = <<MkBundle("Sandwich", <<1, 2>>), MkBundle("Sandwich", <<1>>),
                          MkBundle("Jit", <<1>>), MkBundle("Jit", <<2>>)>>
    /\ OfType(poll_result.bundles, "Sandwich") = <<MkBundle("Sandwich", <<1>>)>>
    /\ OfType(poll_result.bundles, "Jit") = <<MkBundle("Jit", <<2>>)>>
    /\ \E b \in Range(poll_result.bundles) :
          /\ b.mev_type = "JitSandwich"
          /\ b.parts = <<MkBundle("Sandwich", <<1, 2>>), MkBundle("Jit", <<1>>)>>

----------------------------------------------------------------------------
(* The two entries of MEV_FILTER one after the other: C23 *)

\* raw lists of Sandwich and Backrun bundles followed by one Jit bundle
OrderLists ==
    {deep \o <<MkBundle("Jit", h)>> :
        deep \in SeqsUpTo(DeepUniverse, MaxDeep), h \in DeepHashVecs}

\* inside poll, after the future was taken: inspector 1 returned the raw list
OrderInit ==
    /\ inspectors_execution = "None"
    /\ pre_processing = PreProcess(ExampleTree)
    /\ is_finished = FALSE
    /\ \E raw \in OrderLists :
          /\ tasks = [k \in Inspectors |->
                        [inspector |-> k, status |-> "ok",
                         out |-> IF k = 1 THEN raw ELSE <<>>]]
          /\ orchestra_data = raw
    /\ header = NoHeader
    /\ sorted_mev = EmptyMap
    /\ filter_idx = 1
    /\ pc = "build_header"
    /\ poll_result = PendingResult
    /\ starts = 1
    /\ ready_count = 0
    /\ finished_entries = 0
    /\ call = NoCall
    /\ ret = NoCall

OrderSpec == OrderInit /\ [][ResolveNext]_vars

\* the raw Sandwich bundle s is the first part of a JitSandwich bundle of the
\* final output
C23_Merged(s) ==
    \E b \in Range(poll_result.bundles) :
        b.mev_type = "JitSandwich" /\ Len(b.parts) = 2 /\ b.parts[1] = s

\* C23: the entries are applied in the declared order, each completely before
\* the next: nothing is composed while the subsumption entry is the one
\* applied or just applied, and in a final output no Backrun or CexDex bundle
\* is left that shares a hash with a raw Sandwich bundle which was merged
\* into a JitSandwich bundle.
C23_SubsumedBeforeComposed ==
    /\ (pc = "filter" /\ filter_idx <= 2) =>
          /\ GroupOf(sorted_mev, "JitSandwich") = OfType(orchestra_data, "JitSandwich")
          /\ GroupOf(sorted_mev, "Sandwich") = OfType(orchestra_data, "Sandwich")
          /\ GroupOf(sorted_mev, "Jit") = OfType(orchestra_data, "Jit")
    /\ pc = "done" =>
          \A s \in Range(OfType(orchestra_data, "Sandwich")) :
              C23_Merged(s) =>
                  \A b \in Range(poll_result.bundles) :
                      b.mev_type \in {"Backrun", "CexDex"} => ~SetsMeet(b.hashes, s.hashes)

----------------------------------------------------------------------------
(* process_swaps on longer swap lists and on flash loans: C24 - C26 *)

\* C24: with more than two flattened swaps, pools being the number of
\* distinct pools and unique_tokens the number of distinct tokens of all the
\* swaps, is_possible_arb rejects exactly when unique_tokens < pools and
\* unique_tokens <= 3; a rejected transaction gives no bundle, an accepted one
\* goes on to the profit test and gives a bundle exactly when it gains. Three
\* swaps over 2 pools and 2 tokens are accepted.
C24_ManySwapsTest ==
    (ret.fn = "process_swaps" /\ Len(ret.swaps) > 2) =>
        LET pools == Cardinality({ret.swaps[i].pool : i \in DOMAIN ret.swaps})
            unique_tokens ==
                Cardinality(UNION {{ret.swaps[i].token_in, ret.swaps[i].token_out} :
                                      i \in DOMAIN ret.swaps})
        IN /\ ~ret.possible_arb <=> (unique_tokens < pools /\ unique_tokens <= 3)
           /\ ~ret.possible_arb => ret.bundle = NoBundle
           /\ ret.possible_arb => (ret.bundle # NoBundle <=> Gains(call.valuation))
           /\ (Len(ret.swaps) = 3 /\ pools = 2 /\ unique_tokens = 2) => ret.possible_arb

\* five swaps over five pools and four tokens were accepted and, gaining,
\* gave a bundle
C24_Witness ==
    /\ ret.fn = "process_swaps"
    /\ ret.swaps = RingSwaps(4, 5)
    /\ ret.possible_arb
    /\ Gains(call.valuation)
    /\ ret.bundle # NoBundle

\* the swaps an action stands for: a Swap action its swap, a flash loan the
\* swaps of its child Swap actions in their order, any other action none
C25_SwapsOf(a) ==
    IF a.kind = "Swap" THEN <<a.swap>>
    ELSE IF a.kind = "FlashLoan"
    THEN LET kids == SelectSeq(a.child_actions, LAMBDA c : c.kind = "Swap")
         IN [i \in DOMAIN kids |-> kids[i].swap]
    ELSE <<>>

\* C25: the swap sequence that is classified is the swaps of the actions in
\* action order, each flash loan standing for the swaps among its children
\* and for nothing else; when that sequence has no swap or one swap there is
\* no bundle.
C25_FlattenedSwapsClassified ==
    ret.fn = "process_swaps" =>
        /\ ret.swaps = ConcatAll([i \in DOMAIN call.actions |-> C25_SwapsOf(call.actions[i])])
        /\ Len(ret.swaps) <= 1 => (~ret.possible_arb /\ ret.bundle = NoBundle)

\* a Swap action followed by a flash loan with a swap and a transfer in it:
\* the two swaps were classified, in that order, and gave a bundle
C25_Witness ==
    /\ ret.fn = "process_swaps"
    /\ Len(call.actions) = 2
    /\ is_swap(call.actions[1])
    /\ is_flash_loan(call.actions[2])
    /\ Len(call.actions[2].child_actions) = 2
    /\ ret.swaps = <<call.actions[1].swap, call.actions[2].child_actions[1].swap>>
    /\ ret.possible_arb
    /\ ret.bundle # NoBundle

\* C26: an accepted transaction gives a bundle tagged Backrun whose payload
\* swap list is the flattened swap list that was classified, the child swaps
\* of the flash loans included, in the same order.
C26_PayloadIsClassifiedList ==
    (ret.fn = "process_swaps" /\ ret.bundle # NoBundle) =>
        /\ ret.bundle.mev_type = "Backrun"
        /\ ret.bundle.swaps = ret.swaps

----------------------------------------------------------------------------
(* The queries of the Composer: C27 *)

\* lines 112-114 and 116-118
is_processing == inspectors_execution = "Some"
is_finished_query == is_finished

\* C27: in every reachable state of a Composer, whatever the order of the
\* on_new_tree and poll calls, is_processing() and is_finished() are not both
\* true, and is_finished() is true only when no inspector execution is
\* pending.
C27_FinishedExcludesProcessing ==
    /\ ~(is_processing /\ is_finished_query)
    /\ is_finished_query => inspectors_execution = "None"

----------------------------------------------------------------------------
(* What resolution leaves alone and what it leaves behind: C28 - C30 *)

\* the types MEV_FILTER names, as a head or as a dependency
TableTypes ==
    UNION {{MEV_FILTER[e].head} \cup Range(MEV_FILTER[e].deps) : e \in DOMAIN MEV_FILTER}

\* C28: a bundle whose type is neither a head nor a dependency type of an
\* entry of MEV_FILTER is left untouched by resolution: its group is the same
\* before and after every entry, and a final output holds it as many times
\* as the raw list does.
C28_OtherTypesUntouched ==
    \A t \in MevType \ TableTypes :
        /\ pc = "filter" => GroupOf(sorted_mev, t) = OfType(orchestra_data, t)
        /\ pc = "done" =>
              /\ OfType(poll_result.bundles, t) = OfType(orchestra_data, t)
              /\ \A b \in Range(OfType(orchestra_data, t)) :
                    Count(b, poll_result.bundles) = Count(b, orchestra_data)

\* a Liquidation bundle is in the output of a resolution that removed a
\* Backrun bundle and composed a JitSandwich bundle
C28_Witness ==
    /\ pc = "done"
    /\ \E b \in Range(orchestra_data) :
          b.mev_type = "Liquidation" /\ Count(b, poll_result.bundles) = 1
    /\ \E b \in Range(orchestra_data) :
          b.mev_type = "Backrun" /\ b \notin Range(poll_result.bundles)
    /\ \E b \in Range(poll_result.bundles) : b.mev_type = "JitSandwich"

\* some Sandwich bundle of the list has the hash list of, or shares a hash
\* with, some Jit bundle of the list
C29_PairLeft(list) ==
    \E i \in DOMAIN list : \E j \in DOMAIN list :
        /\ list[i].mev_type = "Sandwich"
        /\ list[j].mev_type = "Jit"
        /\ (list[i].hashes = list[j].hashes \/ SetsMeet(list[i].hashes, list[j].hashes))

\* C29: composition is exhaustive: once the JitSandwich => {Sandwich, Jit}
\* entry is applied, no Sandwich bundle left in the groups or in the final
\* output has the hash list of, or shares a hash with, a Jit bundle left
\* there.
C29_NoComposablePairLeft ==
    /\ (pc = "filter" /\ filter_idx = 3) =>
          ~C29_PairLeft(GroupOf(sorted_mev, "Sandwich") \o GroupOf(sorted_mev, "Jit"))
    /\ pc = "done" => ~C29_PairLeft(poll_result.bundles)

\* an output with a JitSandwich bundle made in the step, and with a Sandwich
\* and a Jit bundle that the step left because they share nothing
C29_Witness ==
    /\ pc = "done"
    /\ \E b \in Range(poll_result.bundles) :
          b.mev_type = "JitSandwich" /\ Len(b.parts) = 2
    /\ \E b \in Range(poll_result.bundles) : b.mev_type = "Sandwich"
    /\ \E b \in Range(poll_result.bundles) : b.mev_type = "Jit"

\* the bundles of a list that are no composition, and the parts of those
\* that are
C30_Standalone(list) == SelectSeq(list, LAMBDA b : b.parts = <<>>)
C30_Parts(list) ==
    ConcatAll([i \in DOMAIN list |-> list[i].parts])

\* the raw Backrun and CexDex bundles that share a hash with a raw Sandwich
\* bundle
C30_Subsumed == SelectSeq(orchestra_data, LAMBDA b : C7_SubsumedIn(<<b>>))

\* C30: resolution accounts for every raw bundle exactly once: it is in the
\* final output unchanged, or it was removed by subsumption, or it is one
\* part of one composition, and never two of these; the final count is the
\* raw count minus the subsumed bundles minus the composed pairs.
C30_EveryBundleAccounted ==
    pc = "done" =>
        LET out == poll_result.bundles
            pairs == Len(out) - Len(C30_Standalone(out))
        IN /\ \A b \in Range(orchestra_data) :
                 Count(b, orchestra_data)
                     = Count(b, C30_Standalone(out)) + Count(b, C30_Parts(out))
                           + Count(b, C30_Subsumed)
           /\ \A b \in Range(C30_Standalone(out)) \cup Range(C30_Parts(out)) :
                 b \in Range(orchestra_data)
           /\ Len(out) = Len(orchestra_data) - Len(C30_Subsumed) - pairs

----------------------------------------------------------------------------
(* PoolTokens and its RLP encoding: C31 *)

\* an Address is AddressLen bytes; the all-zero one is Address::default()
AddressLen == 2
AddressBytes == {0, 1}
Addresses == [1..AddressLen -> AddressBytes]
ZeroAddress == [i \in 1..AddressLen |-> 0]
is_zero(a) == a = ZeroAddress

\* Option<Address>
NoAddress == [is_some |-> FALSE, value |-> ZeroAddress]
SomeAddress(a) == [is_some |-> TRUE, value |-> a]
OptionalAddresses == {NoAddress} \cup {SomeAddress(a) : a \in Addresses}
unwrap_or_default(o) == IF o.is_some THEN o.value ELSE ZeroAddress

\* lines 42-48
PoolTokens ==
    [token0 : Addresses, token1 : Addresses, token2 : OptionalAddresses,
     token3 : OptionalAddresses, token4 : OptionalAddresses]

\* Address::encode: an RLP string, the header byte 0x80 + length and then the
\* bytes
EncodeAddress(a) == <<128 + Len(a)>> \o a

\* Address::decode: the address at the head of the buffer and the rest of the
\* buffer; ok is FALSE when the head is no RLP string of AddressLen bytes
DecodeAddress(buf) ==
    IF Len(buf) >= 1 + AddressLen /\ buf[1] = 128 + AddressLen
    THEN [ok |-> TRUE, value |-> SubSeq(buf, 2, 1 + AddressLen),
          rest |-> SubSeq(buf, 2 + AddressLen, Len(buf))]
    ELSE [ok |-> FALSE, value |-> ZeroAddress, rest |-> buf]

\* lines 86-94
encode(p) ==
    EncodeAddress(p.token0) \o EncodeAddress(p.token1)
        \o EncodeAddress(unwrap_or_default(p.token2))
        \o EncodeAddress(unwrap_or_default(p.token3))
        \o EncodeAddress(unwrap_or_default(p.token4))

\* lines 106-116: a zero address read for an optional token becomes None
NoneIfZero(a) == IF is_zero(a) THEN NoAddress ELSE SomeAddress(a)

NoPoolTokens ==
    [token0 |-> ZeroAddress, token1 |-> ZeroAddress, token2 |-> NoAddress,
     token3 |-> NoAddress, token4 |-> NoAddress]

\* lines 96-120: Ok(this), or the error of the first address that fails
decode(buf) ==
    LET a0 == DecodeAddress(buf)
        a1 == DecodeAddress(a0.rest)
        a2 == DecodeAddress(a1.rest)
        a3 == DecodeAddress(a2.rest)
        a4 == DecodeAddress(a3.rest)
    IN IF a0.ok /\ a1.ok /\ a2.ok /\ a3.ok /\ a4.ok
       THEN [ok |-> TRUE,
             value |-> [token0 |-> a0.value, token1 |-> a1.value,
                        token2 |-> NoneIfZero(a2.value),
                        token3 |-> NoneIfZero(a3.value),
                        token4 |-> NoneIfZero(a4.value)]]
       ELSE [ok |-> FALSE, value |-> NoPoolTokens]

\* a PoolTokens value is about to be written to the table
CodecInit ==
    /\ NoComposer
    /\ \E p \in PoolTokens : call = [fn |-> "encode", p |-> p, buf |-> <<>>]
    /\ ret = NoCall

\* lines 125-129: compress_to_buf encodes the value
CallEncode ==
    /\ call.fn = "encode"
    /\ ret = NoCall
    /\ ret' = [fn |-> "encode", ok |-> TRUE, value |-> call.p, buf |-> encode(call.p)]
    /\ UNCHANGED <<call, inspectors_execution, pre_processing, is_finished, tasks,
                   orchestra_data, header, sorted_mev, filter_idx, pc, poll_result,
                   starts, ready_count, finished_entries>>

\* lines 133-137: decompress decodes the bytes that were written
CallDecode ==
    /\ call.fn = "encode"
    /\ ret.fn = "encode"
    /\ call' = [fn |-> "decode", p |-> call.p, buf |-> ret.buf]
    /\ ret' = [fn |-> "decode", ok |-> decode(ret.buf).ok,
               value |-> decode(ret.buf).value, buf |-> <<>>]
    /\ UNCHANGED <<inspectors_execution, pre_processing, is_finished, tasks,
                   orchestra_data, header, sorted_mev, filter_idx, pc, poll_result,
                   starts, ready_count, finished_entries>>

CodecNext == CallEncode \/ CallDecode

CodecSpec == CodecInit /\ [][CodecNext]_vars

\* C31: the encoding of PoolTokens round-trips: for every value p, an
\* optional token that is present but is the zero address included, decoding
\* the encoding of p succeeds and gives p.
C31_RoundTrip ==
    (call.fn = "decode" /\ ret.fn = "decode") => (ret.ok /\ ret.value = call.p)

====
